---- MODULE Spec2Model ----
(***************************************************************************)
(* A model of the O(1) LFU cache of src/unnamed/part_003 (lines 471-838,   *)
(* the last revision of lfucache.go): the two levels of doubly linked      *)
(* lists (frequency nodes, and the nodes of each), the index, the          *)
(* statistics and the eviction channels.                                   *)
(*                                                                         *)
(* Pointers are handles. A *node is named by its key: Insert evicts the    *)
(* node of a key before it allocates the next one for it, so the structure *)
(* holds at most one node per key. A *frequencyNode is an id of FnIds; an  *)
(* unlinked frequency node is garbage and its id is free again.            *)
(***************************************************************************)
EXTENDS Integers, Sequences, FiniteSets, TLC

\* ------------------------------------------------------------------ bounds
MaxCap == 3
MaxUsage == 2
MaxOps == 4
MaxTierOps == 5
MaxGoOps == 3
MaxChanOps == 6

Keys == {"a", "b", "c"}
Values == {1, 2}
Chans == {"e1", "e2"}
Goroutines == {"g1", "g2"}

NilN == "nil"
NilF == 0
NilV == 0
FnIds == 1 .. (Cardinality(Keys) + 2)

VARIABLES
  capacity,      \* Cache.capacity
  length,        \* Cache.length
  frequencyList, \* Cache.frequencyList: the head frequency node
  index,         \* Cache.index: key -> *node
  evictedChans,  \* Cache.evictedChans
  stats,         \* Cache.stats
  nodes,         \* the heap of node structs
  fnodes,        \* the heap of frequencyNode structs
  pc,            \* where the calling goroutine stands in its operation (and, while
                 \* it is blocked in a send, the cache as it was at the call)
  last,          \* the operation called last, and its arguments
  ret,           \* what the last completed operation returned
  delivered,     \* <<channel, value>> received by the observers during the operation
  evicted,       \* what evict() removed during the operation
  tiers,         \* history: per usage count, the keys in order of arrival
  panic,         \* the panic that ended the program, "" when none
  nops,          \* number of operations called
  gs,            \* where each of the goroutines that call without waiting for
                 \* one another stands (SpecGo)
  reference      \* history: a plain map given the same Insert and Delete calls

vars == <<capacity, length, frequencyList, index, evictedChans, stats, nodes,
          fnodes, pc, last, ret, delivered, evicted, tiers, panic, nops, gs, reference>>

\* ------------------------------------------------------------------- types
FreeNode == [key |-> NilN, value |-> NilV, parent |-> NilF, next |-> NilN, prev |-> NilN]

FreeFn == [usage |-> -1, prev |-> NilF, next |-> NilF, head |-> NilN, tail |-> NilN]

ZeroStats == [LenFreq0 |-> 0, Inserts |-> 0, Hits |-> 0, Misses |-> 0,
              Evictions |-> 0, Deletes |-> 0, FreqListLen |-> 0]

errZeroSizeCache == "create zero-sized cache"

errEmptyLFU == "lfu on empty cache"

\* The cache as one value: the fields of Cache and the heap they point into.
Cache == [capacity |-> capacity, length |-> length, frequencyList |-> frequencyList,
          index |-> index, evictedChans |-> evictedChans, stats |-> stats,
          node |-> nodes, fn |-> fnodes]

\* The id the allocator gives the next frequency node.
AllocFn(c) == CHOOSE i \in FnIds : c.fn[i] = FreeFn /\ \A j \in FnIds : j < i => c.fn[j] # FreeFn

\* ------------------------------------------------------- the private methods

\* Faulty variant: deleteFrequencyNode leaving the prev pointer of the next
\* frequency node as it was.
deleteFrequencyNode_NoBackLink(c, f) ==
  [c EXCEPT !.fn[c.fn[f].prev].next = c.fn[f].next, !.fn[f] = FreeFn]

\* deleteFrequencyNode removes a frequency node from the list.
deleteFrequencyNode(c, f) ==
  LET nx == c.fn[f].next
      pv == c.fn[f].prev
      c1 == IF nx # NilF THEN [c EXCEPT !.fn[nx].prev = pv] ELSE c
      c2 == [c1 EXCEPT !.fn[pv].next = nx]
  IN [c2 EXCEPT !.fn[f] = FreeFn]

\* newFrequencyNode inserts a new frequency node after prev; its id is AllocFn(c).
newFrequencyNode(c, usage, prev) ==
  LET f == AllocFn(c)
      nx == c.fn[prev].next
      c1 == [c EXCEPT !.fn[f] = [usage |-> usage, prev |-> prev, next |-> nx,
                                 head |-> NilN, tail |-> NilN]]
      c2 == IF nx # NilF THEN [c1 EXCEPT !.fn[nx].prev = f] ELSE c1
  IN [c2 EXCEPT !.fn[prev].next = f]

\* Faulty variant: moveNodeToFn leaving the frequency node it emptied in the list.
moveNodeToFn_KeepsEmpty(c, n, f) ==
  LET n0 == c.node[n]
      p == n0.parent
      c1 == IF n0.prev # NilN THEN [c EXCEPT !.node[n0.prev].next = n0.next] ELSE c
      c2 == IF n0.next # NilN THEN [c1 EXCEPT !.node[n0.next].prev = n0.prev] ELSE c1
      c3 == IF p # NilF
            THEN LET a == IF c2.fn[p].head = n THEN [c2 EXCEPT !.fn[p].head = n0.next] ELSE c2
                 IN IF a.fn[p].tail = n THEN [a EXCEPT !.fn[p].tail = n0.prev] ELSE a
            ELSE c2
      c4 == [c3 EXCEPT !.node[n].prev = NilN, !.node[n].next = NilN, !.node[n].parent = f]
      t == c4.fn[f].tail
      c5 == IF t # NilN THEN [c4 EXCEPT !.node[n].prev = t, !.node[t].next = n] ELSE c4
      c6 == IF c5.fn[f].head = NilN THEN [c5 EXCEPT !.fn[f].head = n] ELSE c5
  IN [c6 EXCEPT !.fn[f].tail = n]

\* moveNodeToFn moves node n to the tail of frequency node f, removing it
\* from its current frequency node (and that one from the list if it empties).
moveNodeToFn(c, n, f) ==
  LET n0 == c.node[n]
      p == n0.parent
      c1 == IF n0.prev # NilN THEN [c EXCEPT !.node[n0.prev].next = n0.next] ELSE c
      c2 == IF n0.next # NilN THEN [c1 EXCEPT !.node[n0.next].prev = n0.prev] ELSE c1
      c3 == IF p # NilF
            THEN LET a == IF c2.fn[p].head = n THEN [c2 EXCEPT !.fn[p].head = n0.next] ELSE c2
                     b == IF a.fn[p].tail = n THEN [a EXCEPT !.fn[p].tail = n0.prev] ELSE a
                 IN IF b.fn[p].head = NilN /\ b.fn[p].usage # 0
                    THEN deleteFrequencyNode(b, p)
                    ELSE b
            ELSE c2
      c4 == [c3 EXCEPT !.node[n].prev = NilN, !.node[n].next = NilN, !.node[n].parent = f]
      t == c4.fn[f].tail
      c5 == IF t # NilN THEN [c4 EXCEPT !.node[n].prev = t, !.node[t].next = n] ELSE c4
      c6 == IF c5.fn[f].head = NilN THEN [c5 EXCEPT !.fn[f].head = n] ELSE c5
  IN [c6 EXCEPT !.fn[f].tail = n]

\* Faulty variant: deleteNode leaving the frequency node it emptied in the list.
unlinkNode_KeepsEmpty(c, n) ==
  LET n0 == c.node[n]
      f == n0.parent
      c1 == IF n0.prev # NilN THEN [c EXCEPT !.node[n0.prev].next = n0.next] ELSE c
      c2 == IF n0.next # NilN THEN [c1 EXCEPT !.node[n0.next].prev = n0.prev] ELSE c1
      c3 == IF c2.fn[f].head = n THEN [c2 EXCEPT !.fn[f].head = n0.next] ELSE c2
  IN IF c3.fn[f].tail = n THEN [c3 EXCEPT !.fn[f].tail = n0.prev] ELSE c3

\* deleteNode, first half: the node leaves its list, and its frequency node
\* the frequency list if that became empty.
unlinkNode(c, n) ==
  LET n0 == c.node[n]
      f == n0.parent
      c1 == IF n0.prev # NilN THEN [c EXCEPT !.node[n0.prev].next = n0.next] ELSE c
      c2 == IF n0.next # NilN THEN [c1 EXCEPT !.node[n0.next].prev = n0.prev] ELSE c1
      c3 == IF c2.fn[f].head = n THEN [c2 EXCEPT !.fn[f].head = n0.next] ELSE c2
      c4 == IF c3.fn[f].tail = n THEN [c3 EXCEPT !.fn[f].tail = n0.prev] ELSE c3
      c5 == IF c4.fn[f].usage # 0 /\ c4.fn[f].head = NilN
            THEN deleteFrequencyNode(c4, f)
            ELSE c4
  IN c5

\* Faulty variant: deleteNode leaving the key in the index.
deleteNode_KeepsIndex(c, n) ==
  [unlinkNode(c, n) EXCEPT !.length = @ - 1, !.node[n] = FreeNode]

\* Faulty variant: deleteNode without c.length--.
deleteNode_KeepsLength(c, n) ==
  [unlinkNode(c, n) EXCEPT !.index[c.node[n].key] = NilN, !.node[n] = FreeNode]

\* deleteNode deletes a node from the cache, and its frequency node if that
\* became empty. The unlinked node is garbage.
deleteNode(c, n) ==
  [unlinkNode(c, n) EXCEPT !.index[c.node[n].key] = NilN, !.length = @ - 1,
                           !.node[n] = FreeNode]

RECURSIVE lfuFrom(_, _)
lfuFrom(c, f) ==
  IF f = NilF THEN NilN
  ELSE IF c.fn[f].head # NilN THEN c.fn[f].head
  ELSE lfuFrom(c, c.fn[f].next)

\* Faulty variant: lfu with its walk begun after the head frequency node.
lfu_SkipsHead(c) == lfuFrom(c, c.fn[c.frequencyList].next)

\* The walk of lfu, taking the tail of the first frequency node that has one.
RECURSIVE lfuTailFrom(_, _)
lfuTailFrom(c, f) ==
  IF f = NilF THEN NilN
  ELSE IF c.fn[f].tail # NilN THEN c.fn[f].tail
  ELSE lfuTailFrom(c, c.fn[f].next)

\* Faulty variant: lfu returning the newest node of the frequency node, not the oldest.
lfu_Newest(c) == lfuTailFrom(c, c.frequencyList)

\* lfu returns the least frequently used node, the oldest of them; NilN
\* stands for panic(errEmptyLFU).
lfu(c) == lfuFrom(c, c.frequencyList)

RECURSIVE countNodes(_, _)
countNodes(c, n) == IF n = NilN THEN 0 ELSE 1 + countNodes(c, c.node[n].next)

\* items0 returns the number of items of the head frequency node.
items0(c) == countNodes(c, c.fn[c.frequencyList].head)

RECURSIVE countFns(_, _)
countFns(c, f) == IF f = NilF THEN 0 ELSE 1 + countFns(c, c.fn[f].next)

\* numFrequencyNodes returns the number of frequency nodes in the cache.
numFrequencyNodes(c) == countFns(c, c.frequencyList)

\* The frequency nodes of the list from f on, as a loop over fn.next finds them.
RECURSIVE fnList(_, _)
fnList(c, f) == IF f = NilF THEN <<>> ELSE <<f>> \o fnList(c, c.fn[f].next)

\* The nodes of a list from n on, as a loop over n.next finds them.
RECURSIVE nodeList(_, _)
nodeList(c, n) == IF n = NilN THEN <<>> ELSE <<n>> \o nodeList(c, c.node[n].next)

\* ------------------------------------------------------------ history helpers
TierIds == 0 .. (MaxOps + MaxTierOps)

RemoveKey(seq, k) == SelectSeq(seq, LAMBDA x : x # k)

Present(c) == {k \in Keys : c.index[k] # NilN}

\* The usage count of a present key: index -> node -> parent -> usage.
UsageOf(c, k) == c.fn[c.node[c.index[k]].parent].usage

ValueOf(c, k) == c.node[c.index[k]].value

\* The tier of the history that holds key k (-1 when none).
TierOf(ts, k) ==
  IF \E u \in TierIds : \E j \in 1 .. Len(ts[u]) : ts[u][j] = k
  THEN CHOOSE u \in TierIds : \E j \in 1 .. Len(ts[u]) : ts[u][j] = k
  ELSE -1

TiersWithout(ts, k) == [u \in TierIds |-> RemoveKey(ts[u], k)]

TiersInsert(ts, k) == [TiersWithout(ts, k) EXCEPT ![0] = Append(@, k)]

TiersPromote(ts, k) ==
  LET u == TierOf(ts, k)
  IN IF u < 0 \/ u + 1 \notin TierIds THEN ts
     ELSE [TiersWithout(ts, k) EXCEPT ![u + 1] = Append(@, k)]

MinOf(S) == CHOOSE x \in S : \A y \in S : x <= y

\* What the history keeps of one eviction, taken just before the node goes.
EvictionRecord(c, ts, n, why) ==
  LET k == c.node[n].key
      others == Present(c) \ {k}
      u == UsageOf(c, k)
      t == TierOf(ts, k)
  IN [key |-> k, value |-> c.node[n].value, why |-> why, usage |-> u,
      minOther |-> IF others = {} THEN u ELSE MinOf({UsageOf(c, o) : o \in others}),
      first |-> IF t < 0 THEN NilN ELSE Head(ts[t]),
      tied |-> t >= 0 /\ Len(ts[t]) >= 2]

\* The number of nodes in the lists of the frequency nodes fl.
RECURSIVE countItems(_, _)
countItems(c, fl) ==
  IF fl = <<>> THEN 0
  ELSE Len(nodeList(c, c.fn[Head(fl)].head)) + countItems(c, Tail(fl))

\* check, the self-check of the build tagged "checked": the bugs it finds
\* (it panics with the first).
check(c) ==
  LET fl == fnList(c, c.frequencyList)
      items(i) == nodeList(c, c.fn[fl[i]].head)
      bug(found, msg) == IF found THEN {msg} ELSE {}
  IN    bug(c.length # Cardinality(Present(c)), "index/numItems mismatch")
   \cup bug(\E i \in 1 .. Len(fl) : c.fn[fl[i]].head = NilN /\ c.fn[fl[i]].usage # 0,
             "empty non-head frequency node")
   \cup bug(\E i \in 1 .. Len(fl) : c.fn[fl[i]].prev # (IF i = 1 THEN NilF ELSE fl[i - 1]),
             "incorrect prev frequencyNode pointer")
   \cup bug(\E i \in 1 .. Len(fl) : \E j \in 1 .. Len(items(i)) :
               c.node[items(i)[j]].parent # fl[i],
             "incorrect parent pointer")
   \cup bug(\E i \in 1 .. Len(fl) : \E j \in 1 .. Len(items(i)) :
               c.node[items(i)[j]].prev # (IF j = 1 THEN NilN ELSE items(i)[j - 1]),
             "incorrect prev node pointer")
   \cup bug(\E i \in 1 .. Len(fl) :
               items(i) # <<>> /\ c.fn[fl[i]].tail # items(i)[Len(items(i))],
             "tail pointer not pointing to last node")
   \cup bug(countItems(c, fl) # Cardinality(Present(c)), "index/item count mismatch")

\* ------------------------------------------------------------ the operations
Idle == [at |-> "idle", after |-> "idle", n |-> NilN, i |-> 0, why |-> "",
         key |-> NilN, value |-> NilV, ord |-> <<>>, test |-> {}, cnt |-> 0,
         pre |-> <<>>]

\* What a call returned (ok is also the found of UnregisterEvictions).
NoRet == [ok |-> FALSE, value |-> NilV, cnt |-> 0, stats |-> ZeroStats]

NoCall == [op |-> "New", key |-> NilN, value |-> NilV, cap |-> 0, test |-> {}, chan |-> ""]

\* Faulty variant: evict leaving its loop after the first send.
evictBlocked_FirstOnly(c, i) == i <= Len(c.evictedChans) /\ i = 1

\* Faulty variant: evict without its loop of sends.
evictBlocked_NoSend(c, i) == FALSE

\* Faulty variant: evict with its loop one channel short.
evictBlocked_SkipsLast(c, i) == i < Len(c.evictedChans)

\* evict: the send loop stands at channel i and blocks while there is one.
evictBlocked(c, i) == i <= Len(c.evictedChans)

\* Faulty variant: evict taking the eviction off the counter.
evictFinish_Uncounts(c, n) == [deleteNode(c, n) EXCEPT !.stats.Evictions = @ - 1]

\* evict, after its sends: the node is removed and counted.
evictFinish(c, n) == [deleteNode(c, n) EXCEPT !.stats.Evictions = @ + 1]

\* Faulty variant: Insert creating the node without the value.
InsertNew_NoValue(c, key, value) ==
  LET c1 == [c EXCEPT !.node[key] = [key |-> key, value |-> NilV, parent |-> NilF,
                                     next |-> NilN, prev |-> NilN],
                      !.index[key] = key]
      c2 == moveNodeToFn(c1, key, c1.frequencyList)
  IN [c2 EXCEPT !.length = @ + 1, !.stats.Inserts = @ + 1]

\* Faulty variant: Insert without its count of the insert.
InsertNew_Uncounted(c, key, value) ==
  LET c1 == [c EXCEPT !.node[key] = [key |-> key, value |-> value, parent |-> NilF,
                                     next |-> NilN, prev |-> NilN],
                      !.index[key] = key]
      c2 == moveNodeToFn(c1, key, c1.frequencyList)
  IN [c2 EXCEPT !.length = @ + 1]

\* Insert, once nothing is left to evict: the new node enters the head
\* frequency node.
InsertNew(c, key, value) ==
  LET c1 == [c EXCEPT !.node[key] = [key |-> key, value |-> value, parent |-> NilF,
                                     next |-> NilN, prev |-> NilN],
                      !.index[key] = key]
      c2 == moveNodeToFn(c1, key, c1.frequencyList)
  IN [c2 EXCEPT !.length = @ + 1, !.stats.Inserts = @ + 1]

\* Faulty variant: Insert of a present key evicting the least used item.
InsertEntry_EvictsLfu(c, key) ==
  IF c.index[key] # NilN
  THEN [Idle EXCEPT !.at = "evict", !.n = lfu(c), !.i = 1, !.why = "reinsert",
                    !.after = "Insert.full"]
  ELSE [Idle EXCEPT !.at = "Insert.full"]

\* Faulty variant: Insert evicting the existing item only if it was never accessed.
InsertEntry_EvictsUnusedOnly(c, key) ==
  IF c.index[key] # NilN /\ c.node[c.index[key]].parent = c.frequencyList
  THEN [Idle EXCEPT !.at = "evict", !.n = c.index[key], !.i = 1, !.why = "reinsert",
                    !.after = "Insert.full"]
  ELSE [Idle EXCEPT !.at = "Insert.full"]

\* Faulty variant: Insert without the eviction of the existing item.
InsertEntry_KeepsOld(c, key) == [Idle EXCEPT !.at = "Insert.full"]

\* Insert's first step: a key that is already there has its node evicted.
InsertEntry(c, key) ==
  IF c.index[key] # NilN
  THEN [Idle EXCEPT !.at = "evict", !.n = c.index[key], !.i = 1, !.why = "reinsert",
                    !.after = "Insert.full"]
  ELSE [Idle EXCEPT !.at = "Insert.full"]

\* Faulty variant: Insert evicting whenever the cache holds an item.
InsertFull_WhenNotEmpty(c) == c.length > 0

\* Faulty variant: Insert evicting only once the capacity is exceeded.
InsertFull_OffByOne(c) == c.length > c.capacity

\* Insert's test for a full cache.
InsertFull(c) == c.length = c.capacity

\* Faulty variant: Resize stopping one item above the new capacity.
ResizeOver_StopsEarly(c) == c.length > c.capacity + 1

\* Faulty variant: Resize evicting while the cache is at the new capacity.
ResizeOver_AtCapacity(c) == c.length >= c.capacity

\* Resize's loop condition.
ResizeOver(c) == c.length > c.capacity

\* Faulty variant: Access counting the hit without moving the node.
AccessHit_NoMove(c, n) == [c EXCEPT !.stats.Hits = @ + 1]

\* Faulty variant: Access taking the usage after the next for the next usage.
AccessHit_SkipsOne(c, n) ==
  LET p == c.node[n].parent
      nextUsage == c.fn[p].usage + 2
      nx == c.fn[p].next
      fresh == nx = NilF \/ c.fn[nx].usage # nextUsage
      nextFn == IF fresh THEN AllocFn(c) ELSE nx
      c1 == IF fresh THEN newFrequencyNode(c, nextUsage, p) ELSE c
      c2 == moveNodeToFn(c1, n, nextFn)
  IN [c2 EXCEPT !.stats.Hits = @ + 1]

\* Faulty variant: Access making a new frequency node whatever the next one is.
AccessHit_AlwaysNew(c, n) ==
  LET p == c.node[n].parent
      nextUsage == c.fn[p].usage + 1
      c1 == newFrequencyNode(c, nextUsage, p)
      c2 == moveNodeToFn(c1, n, AllocFn(c))
  IN [c2 EXCEPT !.stats.Hits = @ + 1]

\* Faulty variant: Access raising the usage of the node's frequency node where
\* it stands when no frequency node of the next usage exists.
AccessHit_BumpsInPlace(c, n) ==
  LET p == c.node[n].parent
      nextUsage == c.fn[p].usage + 1
      nx == c.fn[p].next
      fresh == nx = NilF \/ c.fn[nx].usage # nextUsage
  IN IF fresh
     THEN [c EXCEPT !.fn[p].usage = nextUsage, !.stats.Hits = @ + 1]
     ELSE [moveNodeToFn(c, n, nx) EXCEPT !.stats.Hits = @ + 1]

\* Access of a present key: its node moves to the frequency node of the next usage.
AccessHit(c, n) ==
  LET p == c.node[n].parent
      nextUsage == c.fn[p].usage + 1
      nx == c.fn[p].next
      fresh == nx = NilF \/ c.fn[nx].usage # nextUsage
      nextFn == IF fresh THEN AllocFn(c) ELSE nx
      c1 == IF fresh THEN newFrequencyNode(c, nextUsage, p) ELSE c
      c2 == moveNodeToFn(c1, n, nextFn)
  IN [c2 EXCEPT !.stats.Hits = @ + 1]

\* Faulty variant: Access counting a miss as a hit.
AccessMiss_CountsHit(c) == [c EXCEPT !.stats.Hits = @ + 1]

\* Access of an absent key counts a miss and touches nothing else.
AccessMiss(c) == [c EXCEPT !.stats.Misses = @ + 1]

\* Faulty variant: Delete counting a key that was not there.
DeleteMiss_Counts(c) == [c EXCEPT !.stats.Deletes = @ + 1]

\* Delete of an absent key does nothing.
DeleteMiss(c) == c

\* Faulty variant: Delete counting an eviction instead.
DeleteHit_AsEviction(c, n) == [deleteNode(c, n) EXCEPT !.stats.Evictions = @ + 1]

\* Delete of a present key.
DeleteHit(c, n) == [deleteNode(c, n) EXCEPT !.stats.Deletes = @ + 1]

\* Faulty variant: Statistics returning c.stats as it stands.
StatisticsOf_Stale(c) == c

\* Statistics refreshes the two structural counts in c.stats and returns it.
StatisticsOf(c) == [c EXCEPT !.stats.LenFreq0 = items0(c),
                             !.stats.FreqListLen = numFrequencyNodes(c)]

\* Faulty variant: Evictions registering a channel only if it is not registered.
RegisterChan_Once(c, e) ==
  IF \E j \in 1 .. Len(c.evictedChans) : c.evictedChans[j] = e THEN c
  ELSE [c EXCEPT !.evictedChans = Append(@, e)]

\* Evictions: the channel goes to the end of the list.
RegisterChan(c, e) == [c EXCEPT !.evictedChans = Append(@, e)]

\* UnregisterEvictions' search: whether the channel is in the list.
UnregisterFound(c, e) == \E j \in 1 .. Len(c.evictedChans) : c.evictedChans[j] = e

\* Faulty variant: UnregisterEvictions dropping the last channel of the list
\* instead of the one found.
UnregisterChan_DropsLast(c, e) ==
  IF UnregisterFound(c, e)
  THEN [c EXCEPT !.evictedChans = SubSeq(@, 1, Len(@) - 1)]
  ELSE c

\* UnregisterEvictions removes the first registration of e, if any.
UnregisterChan(c, e) ==
  LET s == c.evictedChans
      found == UnregisterFound(c, e)
      i == CHOOSE j \in 1 .. Len(s) : s[j] = e /\ \A h \in 1 .. (j - 1) : s[h] # e
  IN IF found
     THEN [c EXCEPT !.evictedChans = SubSeq(s, 1, i - 1) \o SubSeq(s, i + 1, Len(s))]
     ELSE c

\* Faulty variant: EvictIf looking only at the items that were never accessed.
EvictIfTest_UnusedOnly(c, k, test) ==
  c.index[k] # NilN /\ ValueOf(c, k) \in test /\ UsageOf(c, k) = 0

\* EvictIf's test of the item the range over the index has reached (the range
\* does not produce an entry that was deleted before it was reached).
EvictIfTest(c, k, test) == c.index[k] # NilN /\ ValueOf(c, k) \in test

\* The operation runs from where it stands to its next blocking send, its
\* return or its panic. m holds the cache, the position and the history.
\* Faulty variant: EvictIf leaving its loop after the first eviction.
EvictIfCounted_Breaks(p) == [p EXCEPT !.at = "EvictIf.loop", !.cnt = @ + 1, !.ord = <<>>]

\* EvictIf after an eviction: one more counted, and on with the loop.
EvictIfCounted(p) == [p EXCEPT !.at = "EvictIf.loop", !.cnt = @ + 1]

RECURSIVE Run(_)
Run(m) ==
  LET c == m.c
      p == m.p
      toEvict(n, why, after) ==
        Run([m EXCEPT !.p = [p EXCEPT !.at = "evict", !.n = n, !.i = 1,
                                      !.why = why, !.after = after]])
      done(r) == [m EXCEPT !.p = Idle, !.ret = r]
      panicked(e) == [m EXCEPT !.panic = e]
  IN CASE p.at = "evict" ->
            IF evictBlocked(c, p.i) THEN m
            ELSE Run([m EXCEPT !.c = evictFinish(c, p.n),
                               !.evicted = Append(@, EvictionRecord(c, m.tiers, p.n, p.why)),
                               !.tiers = TiersWithout(@, c.node[p.n].key),
                               !.p = [p EXCEPT !.at = p.after]])
       [] p.at = "Insert.full" ->
            IF InsertFull(c)
            THEN IF lfu(c) = NilN THEN panicked(errEmptyLFU)
                 ELSE toEvict(lfu(c), "capacity", "Insert.new")
            ELSE Run([m EXCEPT !.p = [p EXCEPT !.at = "Insert.new"]])
       [] p.at = "Insert.new" ->
            [done(NoRet) EXCEPT !.c = InsertNew(c, p.key, p.value),
                                !.tiers = TiersInsert(@, p.key)]
       [] p.at = "Resize.loop" ->
            IF ResizeOver(c)
            THEN IF lfu(c) = NilN THEN panicked(errEmptyLFU)
                 ELSE toEvict(lfu(c), "resize", "Resize.loop")
            ELSE done(NoRet)
       [] p.at = "EvictIf.loop" ->
            IF p.ord = <<>> THEN done([NoRet EXCEPT !.cnt = p.cnt])
            ELSE LET k == Head(p.ord)
                     q == [p EXCEPT !.ord = Tail(@)]
                 IN IF EvictIfTest(c, k, p.test)
                    THEN Run([m EXCEPT !.p = [q EXCEPT !.at = "evict", !.n = c.index[k],
                                                       !.i = 1, !.why = "evictif",
                                                       !.after = "EvictIf.cnt"]])
                    ELSE Run([m EXCEPT !.p = q])
       [] p.at = "EvictIf.cnt" ->
            Run([m EXCEPT !.p = EvictIfCounted(p)])
       [] OTHER -> m

Machine(c, p) == [c |-> c, p |-> p, ret |-> NoRet, evicted |-> <<>>, tiers |-> tiers,
                  panic |-> ""]

Store(m) ==
  /\ capacity' = m.c.capacity
  /\ length' = m.c.length
  /\ frequencyList' = m.c.frequencyList
  /\ index' = m.c.index
  /\ evictedChans' = m.c.evictedChans
  /\ stats' = m.c.stats
  /\ nodes' = m.c.node
  /\ fnodes' = m.c.fn
  /\ pc' = m.p
  /\ ret' = m.ret
  /\ evicted' = m.evicted
  /\ tiers' = m.tiers
  /\ panic' = m.panic

CanCall == pc.at = "idle" /\ panic = ""

\* The reference map after call l: Insert(k, v) is map[k] := v, Delete(k)
\* removes k, every other call leaves it alone.
Applied(r, l) ==
  IF l.op = "Insert" THEN [r EXCEPT ![l.key] = l.value]
  ELSE IF l.op = "Delete" THEN [r EXCEPT ![l.key] = NilV]
  ELSE r

Called(l) ==
  /\ last' = l /\ nops' = nops + 1 /\ delivered' = <<>> /\ gs' = gs
  /\ reference' = Applied(reference, l)

\* A goroutine between two calls.
GoIdle == [at |-> "idle", key |-> NilN, value |-> NilV]

\* Faulty variant: New without its check of the capacity.
New_AcceptsZero(cap) ==
  /\ capacity = cap
  /\ length = 0
  /\ index = [k \in Keys |-> NilN]
  /\ evictedChans = <<>>
  /\ stats = ZeroStats
  /\ nodes = [k \in Keys |-> FreeNode]
  /\ pc = Idle
  /\ last = [NoCall EXCEPT !.cap = cap]
  /\ ret = NoRet
  /\ delivered = <<>>
  /\ evicted = <<>>
  /\ tiers = [u \in TierIds |-> <<>>]
  /\ nops = 0
  /\ gs = [g \in Goroutines |-> GoIdle]
  /\ reference = [k \in Keys |-> NilV]
  /\ panic = ""
  /\ frequencyList = 1
  /\ fnodes = [f \in FnIds |-> IF f = 1 THEN [FreeFn EXCEPT !.usage = 0] ELSE FreeFn]

\* New(capacity)
New(cap) ==
  /\ capacity = cap
  /\ length = 0
  /\ index = [k \in Keys |-> NilN]
  /\ evictedChans = <<>>
  /\ stats = ZeroStats
  /\ nodes = [k \in Keys |-> FreeNode]
  /\ pc = Idle
  /\ last = [NoCall EXCEPT !.cap = cap]
  /\ ret = NoRet
  /\ delivered = <<>>
  /\ evicted = <<>>
  /\ tiers = [u \in TierIds |-> <<>>]
  /\ nops = 0
  /\ gs = [g \in Goroutines |-> GoIdle]
  /\ reference = [k \in Keys |-> NilV]
  /\ IF cap = 0
     THEN /\ panic = errZeroSizeCache
          /\ frequencyList = NilF
          /\ fnodes = [f \in FnIds |-> FreeFn]
     ELSE /\ panic = ""
          /\ frequencyList = 1
          /\ fnodes = [f \in FnIds |-> IF f = 1 THEN [FreeFn EXCEPT !.usage = 0] ELSE FreeFn]

Init == \E cap \in 0 .. MaxCap : New(cap)

Insert(key, value) ==
  /\ CanCall
  /\ Called([NoCall EXCEPT !.op = "Insert", !.key = key, !.value = value])
  /\ Store(Run(Machine(Cache, [InsertEntry(Cache, key) EXCEPT !.key = key, !.value = value,
                                                              !.pre = Cache])))

Delete(key) ==
  /\ CanCall
  /\ Called([NoCall EXCEPT !.op = "Delete", !.key = key])
  /\ LET n == index[key]
         m == Machine(Cache, Idle)
     IN Store(IF n # NilN
              THEN [m EXCEPT !.c = DeleteHit(Cache, n), !.ret = [NoRet EXCEPT !.ok = TRUE],
                             !.tiers = TiersWithout(@, key)]
              ELSE [m EXCEPT !.c = DeleteMiss(Cache)])

Access(key) ==
  /\ CanCall
  /\ index[key] # NilN => UsageOf(Cache, key) < MaxUsage
  /\ Called([NoCall EXCEPT !.op = "Access", !.key = key])
  /\ LET n == index[key]
         m == Machine(Cache, Idle)
     IN Store(IF n = NilN
              THEN [m EXCEPT !.c = AccessMiss(Cache)]
              ELSE [m EXCEPT !.c = AccessHit(Cache, n),
                             !.ret = [NoRet EXCEPT !.ok = TRUE, !.value = nodes[n].value],
                             !.tiers = TiersPromote(@, key)])

Resize(cap) ==
  /\ CanCall
  /\ Called([NoCall EXCEPT !.op = "Resize", !.cap = cap])
  /\ Store(Run(Machine([Cache EXCEPT !.capacity = cap], [Idle EXCEPT !.at = "Resize.loop", !.pre = Cache])))

Perms(S) == {s \in [1 .. Cardinality(S) -> S] : \A i, j \in 1 .. Cardinality(S) : s[i] = s[j] => i = j}

\* EvictIf(test): test is the set of values it accepts; the map is ranged over
\* in any order.
EvictIf(test) ==
  /\ CanCall
  /\ Called([NoCall EXCEPT !.op = "EvictIf", !.test = test])
  /\ \E ord \in Perms(Present(Cache)) :
        Store(Run(Machine(Cache, [Idle EXCEPT !.at = "EvictIf.loop", !.ord = ord,
                                              !.test = test, !.pre = Cache])))

Statistics ==
  /\ CanCall
  /\ Called([NoCall EXCEPT !.op = "Statistics"])
  /\ LET c == StatisticsOf(Cache)
     IN Store([Machine(c, Idle) EXCEPT !.ret = [NoRet EXCEPT !.stats = c.stats]])

Evictions(e) ==
  /\ CanCall
  /\ Len(evictedChans) < Cardinality(Chans)
  /\ Called([NoCall EXCEPT !.op = "Evictions", !.chan = e])
  /\ Store(Machine(RegisterChan(Cache, e), Idle))

UnregisterEvictions(e) ==
  /\ CanCall
  /\ Called([NoCall EXCEPT !.op = "UnregisterEvictions", !.chan = e])
  /\ Store([Machine(UnregisterChan(Cache, e), Idle)
              EXCEPT !.ret = [NoRet EXCEPT !.ok = UnregisterFound(Cache, e)]])

\* The reader of channel e takes the value evict() is sending on it.
Receive(e) ==
  /\ panic = ""
  /\ pc.at = "evict"
  /\ evictBlocked(Cache, pc.i)
  /\ evictedChans[pc.i] = e
  /\ delivered' = Append(delivered, <<e, nodes[pc.n].value>>)
  /\ UNCHANGED <<last, nops, gs, reference>>
  /\ Store(Run([Machine(Cache, [pc EXCEPT !.i = @ + 1]) EXCEPT !.evicted = evicted]))

\* The caller makes at most MaxOps calls; the readers are not bounded.
Next ==
  \/ \E k \in Keys, v \in Values : nops < MaxOps /\ Insert(k, v)
  \/ \E k \in Keys : nops < MaxOps /\ Delete(k)
  \/ \E k \in Keys : nops < MaxOps /\ Access(k)
  \/ \E cap \in 0 .. MaxCap : nops < MaxOps /\ Resize(cap)
  \/ \E test \in SUBSET Values : nops < MaxOps /\ EvictIf(test)
  \/ nops < MaxOps /\ Statistics
  \/ \E e \in Chans : nops < MaxOps /\ Evictions(e)
  \/ \E e \in Chans : nops < MaxOps /\ UnregisterEvictions(e)
  \/ \E e \in Chans : Receive(e)

Spec == Init /\ [][Next]_vars

\* The readers of the channels go on reading: a value evict() is sending on
\* a channel is received in the end.
SpecFair == Spec /\ \A e \in Chans : WF_vars(Receive(e))

\* The cache without observers, one call deeper: enough calls to fill a
\* tier above zero and then evict from it.
NextTiers ==
  \/ \E k \in Keys, v \in Values : nops < MaxTierOps /\ Insert(k, v)
  \/ \E k \in Keys : nops < MaxTierOps /\ Delete(k)
  \/ \E k \in Keys : nops < MaxTierOps /\ Access(k)
  \/ \E cap \in 0 .. MaxCap : nops < MaxTierOps /\ Resize(cap)

SpecTiers == Init /\ [][NextTiers]_vars

\* The cache and its observers, deeper: enough calls to register a channel
\* twice, evict, unregister it once and evict again.
NextChans ==
  \/ \E k \in Keys, v \in Values : nops < MaxChanOps /\ Insert(k, v)
  \/ \E e \in Chans : nops < MaxChanOps /\ Evictions(e)
  \/ \E e \in Chans : nops < MaxChanOps /\ UnregisterEvictions(e)
  \/ \E e \in Chans : Receive(e)

SpecChans == Init /\ [][NextChans]_vars

\* ------------------------------------------------- calls from two goroutines
\* The methods take no lock: goroutines that call without waiting for one
\* another interleave. The interleavings taken here are those at two places
\* of Insert (before the new node is made, and at the return), with Delete
\* and Access in one step each and no channel registered; two goroutines
\* are not inside Insert for the same key at once.

\* evict with no channel registered: the node is removed and counted.
GoEvict(m, n, why) ==
  [m EXCEPT !.c = evictFinish(m.c, n),
            !.evicted = Append(@, EvictionRecord(m.c, m.tiers, n, why)),
            !.tiers = TiersWithout(@, m.c.node[n].key)]

\* Goroutine g calls Insert and runs it up to the creation of the new node:
\* the eviction of the key's old item and the eviction for a full cache.
GoInsert(g, key, value) ==
  /\ panic = "" /\ pc.at = "idle" /\ evictedChans = <<>>
  /\ gs[g].at = "idle"
  /\ \A h \in Goroutines : gs[h].key # key
  /\ last' = [NoCall EXCEPT !.op = "Insert", !.key = key, !.value = value]
  /\ nops' = nops + 1 /\ delivered' = <<>>
  /\ reference' = Applied(reference, last')
  /\ gs' = [gs EXCEPT ![g] = [at |-> "Insert.new", key |-> key, value |-> value]]
  /\ LET m0 == Machine(Cache, Idle)
         m1 == IF index[key] # NilN THEN GoEvict(m0, index[key], "reinsert") ELSE m0
     IN Store(IF InsertFull(m1.c)
              THEN IF lfu(m1.c) = NilN THEN [m1 EXCEPT !.panic = errEmptyLFU]
                   ELSE GoEvict(m1, lfu(m1.c), "capacity")
              ELSE m1)

\* Goroutine g goes on in Insert: the new node, and the return.
GoInsertNew(g) ==
  /\ panic = "" /\ gs[g].at = "Insert.new"
  /\ gs' = [gs EXCEPT ![g] = GoIdle]
  /\ UNCHANGED <<last, nops, delivered, reference>>
  /\ Store([Machine(InsertNew(Cache, gs[g].key, gs[g].value), Idle)
              EXCEPT !.tiers = TiersInsert(@, gs[g].key)])

\* Goroutine g calls Delete.
GoDelete(g, key) ==
  /\ gs[g].at = "idle"
  /\ Delete(key)

\* Goroutine g calls Access.
GoAccess(g, key) ==
  /\ gs[g].at = "idle"
  /\ Access(key)

\* Each goroutine makes its calls one after the other, MaxGoOps in all.
NextGo ==
  \/ \E g \in Goroutines, k \in Keys, v \in Values : nops < MaxGoOps /\ GoInsert(g, k, v)
  \/ \E g \in Goroutines : GoInsertNew(g)
  \/ \E g \in Goroutines, k \in Keys : nops < MaxGoOps /\ GoDelete(g, k)
  \/ \E g \in Goroutines, k \in Keys : nops < MaxGoOps /\ GoAccess(g, k)

SpecGo == Init /\ [][NextGo]_vars

\* ------------------------------------------------------------------ claims
\* The cache as it was when the operation now running (or about to be called)
\* was called.
Pre == IF pc.at = "idle" THEN Cache ELSE pc.pre

\* This step is a call of op.
CallOf(op) == nops' = nops + 1 /\ last'.op = op

\* This step is the one in which a call of op returns.
Returns(op) == last'.op = op /\ pc'.at = "idle" /\ panic' = "" /\ (nops' = nops + 1 \/ pc.at # "idle")

\* The sends that the evictions ev owe the channels chans, in order.
RECURSIVE Notified(_, _)
Notified(ev, chans) ==
  IF ev = <<>> THEN <<>>
  ELSE [j \in 1 .. Len(chans) |-> <<chans[j], Head(ev).value>>] \o Notified(Tail(ev), chans)

\* The sends already received of the eviction in progress.
InFlight ==
  IF pc.at = "evict"
  THEN [j \in 1 .. (pc.i - 1) |-> <<evictedChans[j], nodes[pc.n].value>>]
  ELSE <<>>

Pressure(e) == e.why \in {"capacity", "resize"}

\* C1: whenever no operation is in progress, Len() <= Cap().
C1_LenWithinCap == pc.at = "idle" => length <= capacity

C1_Witness ==
  /\ pc.at = "idle" /\ panic = "" /\ last.op = "Insert"
  /\ evicted # <<>> /\ length = capacity /\ capacity >= 2

C2_Post(pre) ==
  IF pre.length = pre.capacity
  THEN Len(evicted') = 1 /\ stats'.Evictions = pre.stats.Evictions + 1 /\ length' = pre.length
  ELSE evicted' = <<>> /\ stats'.Evictions = pre.stats.Evictions /\ length' = pre.length + 1

\* C2: an Insert of an absent key does not fail, and when it returns it has
\* evicted exactly one item and left Len() as it was if the cache was full
\* (Len() = Cap()) at the call, and has evicted nothing and raised Len() by one
\* otherwise.
C2_InsertAbsentEvictsOneWhenFull ==
  [][ /\ (CallOf("Insert") /\ index[last'.key] = NilN) => panic' = ""
      /\ (Returns("Insert") /\ Pre.index[last'.key] = NilN) => C2_Post(Pre) ]_vars

\* C3: an item evicted for capacity (by Insert or Resize) has a usage count
\* no greater than that of any other item in the cache at that moment.
C3_EvictsMinimumUsage ==
  \A j \in 1 .. Len(evicted) :
     Pressure(evicted[j]) => evicted[j].usage <= evicted[j].minOther

C3_Witness ==
  \E j \in 1 .. Len(evicted) :
     evicted[j].why = "capacity" /\ evicted[j].usage < evicted[j].minOther

\* C4: an item evicted for capacity is the one that entered its usage tier
\* first among the items of that tier.
C4_EvictsOldestInTier ==
  \A j \in 1 .. Len(evicted) :
     Pressure(evicted[j]) => evicted[j].key = evicted[j].first

C4_Witness ==
  \E j \in 1 .. Len(evicted) :
     /\ Pressure(evicted[j]) /\ evicted[j].tied
     /\ evicted[j].usage > 0 /\ evicted[j].usage = evicted[j].minOther

\* C5: from every reachable state Insert(k, v) does not fail, and an Access(k)
\* that follows it at once returns (v, true).
C5_InsertThenAccess ==
  [][ /\ CallOf("Insert") => panic' = ""
      /\ (pc.at = "idle" /\ last.op = "Insert" /\ CallOf("Access") /\ last'.key = last.key)
            => ret'.ok /\ ret'.value = last.value ]_vars

\* C6: an Insert(k, v2) of a present key evicts the old item (one eviction,
\* counted, its value sent to every registered channel), stores v2 at usage 0
\* and leaves Len() as it was; an Access(k) that follows returns (v2, true).
C6_ReinsertEvictsOld ==
  [][ /\ (Returns("Insert") /\ Pre.index[last'.key] # NilN) =>
            LET k == last'.key
                old == ValueOf(Pre, k)
            IN /\ Len(evicted') = 1
               /\ evicted'[1].key = k /\ evicted'[1].value = old
               /\ stats'.Evictions = Pre.stats.Evictions + 1
               /\ delivered' = [j \in 1 .. Len(evictedChans') |-> <<evictedChans'[j], old>>]
               /\ index'[k] # NilN
               /\ UsageOf(Cache', k) = 0
               /\ ValueOf(Cache', k) = last'.value
               /\ length' = Pre.length
      /\ (/\ pc.at = "idle" /\ last.op = "Insert"
          /\ evicted # <<>> /\ evicted[1].why = "reinsert"
          /\ CallOf("Access") /\ last'.key = last.key)
            => ret'.ok /\ ret'.value = last.value ]_vars

C6_Witness ==
  /\ pc.at = "idle" /\ last.op = "Insert" /\ evictedChans # <<>>
  /\ Len(evicted) = 1 /\ evicted[1].why = "reinsert" /\ evicted[1].value # last.value

\* C7 (as stated): once the operation has returned, every registered channel
\* has received the value of each item it evicted exactly once, and a channel
\* that is not registered has received nothing.
C7_OncePerObserver ==
  pc.at = "idle" =>
    \A e \in Chans :
       Cardinality({j \in 1 .. Len(delivered) : delivered[j][1] = e})
         = IF \E h \in 1 .. Len(evictedChans) : evictedChans[h] = e THEN Len(evicted) ELSE 0

\* C7 (amended): in every state the values received on the channels during
\* the operation are exactly the values of the items it evicted, each once
\* per registration (a channel registered twice receives it twice), in the
\* order of eviction and of registration.
C7_EveryEvictionNotified == delivered = Notified(evicted, evictedChans) \o InFlight

C7_Witness ==
  /\ pc.at = "idle" /\ Len(evictedChans) = 2 /\ evictedChans[1] # evictedChans[2]
  /\ evicted # <<>> /\ Len(delivered) = 2 * Len(evicted)

\* C8: a Delete returns without a send to any channel and leaves the
\* Evictions counter as it was, whether or not the key is present.
C8_DeleteNotifiesNobody ==
  [][ CallOf("Delete") =>
        /\ pc'.at = "idle" /\ delivered' = <<>> /\ evicted' = <<>>
        /\ stats'.Evictions = stats.Evictions ]_vars

C8_Witness ==
  pc.at = "idle" /\ last.op = "Delete" /\ ret.ok /\ evictedChans # <<>> /\ length >= 1

\* C9: a Delete of a present key returns true, lowers Len() by one and raises
\* Deletes by one; an absent key becomes present only by an Insert of it, and
\* Access of an absent key returns not-found.
C9_DeletePresent ==
  [][ /\ (CallOf("Delete") /\ index[last'.key] # NilN) =>
            /\ ret'.ok /\ pc'.at = "idle"
            /\ length' = length - 1
            /\ stats'.Deletes = stats.Deletes + 1
            /\ index'[last'.key] = NilN
      /\ \A k \in Keys : (index[k] = NilN /\ index'[k] # NilN) =>
                            last'.op = "Insert" /\ last'.key = k
      /\ (CallOf("Access") /\ index[last'.key] = NilN) => ~ret'.ok /\ ret'.value = NilV ]_vars

C9_Witness ==
  pc.at = "idle" /\ last.op = "Delete" /\ ret.ok /\ stats.Deletes = 1 /\ length >= 1

\* C10: a Delete of an absent key returns false and changes nothing: not the
\* cache (keys, values, usage, order, Len(), Cap(), the counters), nor the
\* order of arrival.
C10_DeleteAbsentChangesNothing ==
  [][ (CallOf("Delete") /\ index[last'.key] = NilN) =>
        ~ret'.ok /\ pc'.at = "idle" /\ Cache' = Cache /\ tiers' = tiers ]_vars

C10_Witness ==
  pc.at = "idle" /\ panic = "" /\ last.op = "Delete" /\ ~ret.ok /\ length >= 1 /\ stats.Deletes = 0

\* C11: an Access of an absent key returns (nil, false), raises Misses by one
\* and changes nothing else: not the frequency list, the items, their usage
\* and order, the index, Len(), nor any other counter.
C11_AccessAbsentCountsMiss ==
  [][ (CallOf("Access") /\ index[last'.key] = NilN) =>
        /\ ~ret'.ok /\ ret'.value = NilV /\ pc'.at = "idle" /\ panic' = ""
        /\ stats' = [stats EXCEPT !.Misses = @ + 1]
        /\ <<capacity, length, frequencyList, index, evictedChans, nodes, fnodes>>' =
           <<capacity, length, frequencyList, index, evictedChans, nodes, fnodes>>
        /\ tiers' = tiers /\ evicted' = <<>> /\ delivered' = <<>> ]_vars

C11_Witness ==
  /\ pc.at = "idle" /\ last.op = "Access" /\ ~ret.ok
  /\ stats.Misses = 1 /\ stats.Hits = 1 /\ length >= 1

\* C12: an Access of a present key returns (its value, true), raises Hits by
\* one and the usage count of the key by one, and leaves the set of keys,
\* the values, Len() and the usage count of every other key as they were.
C12_AccessPresentRaisesUsage ==
  [][ (CallOf("Access") /\ index[last'.key] # NilN) =>
        LET k == last'.key
        IN /\ ret'.ok /\ ret'.value = ValueOf(Cache, k) /\ pc'.at = "idle" /\ panic' = ""
           /\ stats' = [stats EXCEPT !.Hits = @ + 1]
           /\ UsageOf(Cache', k) = UsageOf(Cache, k) + 1
           /\ Present(Cache') = Present(Cache)
           /\ length' = length /\ capacity' = capacity
           /\ \A o \in Present(Cache) :
                 /\ ValueOf(Cache', o) = ValueOf(Cache, o)
                 /\ o # k => UsageOf(Cache', o) = UsageOf(Cache, o) ]_vars

C12_Witness ==
  /\ pc.at = "idle" /\ last.op = "Access" /\ ret.ok /\ stats.Hits = 2
  /\ UsageOf(Cache, last.key) = 1
  /\ \E o \in Present(Cache) \ {last.key} : UsageOf(Cache, o) = 1

\* C13: a Resize(n) with n < Len() does not fail and, when it returns, has
\* evicted exactly Len() - n items, each the least frequently used of the
\* items then in the cache (lowest usage count, first to have entered its
\* tier); Len() and Cap() are n and Evictions has grown by the number of
\* items evicted.
C13_ResizeShrinkEvictsLFU ==
  [][ /\ (last'.op = "Resize" /\ Pre'.length > last'.cap) => panic' = ""
      /\ (Returns("Resize") /\ last'.cap < Pre.length) =>
            /\ Len(evicted') = Pre.length - last'.cap
            /\ length' = last'.cap /\ capacity' = last'.cap
            /\ stats'.Evictions = Pre.stats.Evictions + Len(evicted')
            /\ Present(Cache') = Present(Pre) \ {evicted'[j].key : j \in 1 .. Len(evicted')}
            /\ \A j \in 1 .. Len(evicted') :
                  /\ evicted'[j].why = "resize"
                  /\ evicted'[j].usage <= evicted'[j].minOther
                  /\ evicted'[j].key = evicted'[j].first ]_vars

C13_Witness ==
  /\ pc.at = "idle" /\ last.op = "Resize" /\ Len(evicted) = 2 /\ length = 1
  /\ evicted[1].tied

\* C14: a Resize(n) with n >= Len() returns at once with nothing evicted and
\* nothing sent; the keys, their values, usage counts and order and all the
\* counters are as before, and only Cap() has changed, to n.
C14_ResizeGrowChangesOnlyCap ==
  [][ (CallOf("Resize") /\ last'.cap >= length) =>
        /\ pc'.at = "idle" /\ panic' = ""
        /\ evicted' = <<>> /\ delivered' = <<>>
        /\ Cache' = [Cache EXCEPT !.capacity = last'.cap]
        /\ tiers' = tiers ]_vars

C14_Witness ==
  /\ pc.at = "idle" /\ panic = "" /\ last.op = "Resize" /\ evictedChans # <<>>
  /\ length >= 1 /\ capacity = length /\ stats.Inserts = 2

\* The keys of the cache c whose value the test accepts.
Matching(c, test) == {k \in Present(c) : ValueOf(c, k) \in test}

\* C15: an EvictIf does not fail and, when it returns, has evicted exactly
\* the items whose value satisfied the test at the call, each once, and has
\* kept every other item with its value and usage count; it returns the
\* number of items evicted, in whatever order the index was ranged over.
C15_EvictIfRemovesMatches ==
  [][ /\ last'.op = "EvictIf" => panic' = ""
      /\ Returns("EvictIf") =>
            LET match == Matching(Pre, last'.test)
            IN /\ Present(Cache') = Present(Pre) \ match
               /\ ret'.cnt = Cardinality(match)
               /\ Len(evicted') = Cardinality(match)
               /\ {evicted'[j].key : j \in 1 .. Len(evicted')} = match
               /\ length' = Pre.length - Cardinality(match)
               /\ stats'.Evictions = Pre.stats.Evictions + Cardinality(match)
               /\ \A k \in Present(Cache') :
                     /\ ValueOf(Cache', k) = ValueOf(Pre, k)
                     /\ UsageOf(Cache', k) = UsageOf(Pre, k) ]_vars

C15_Witness ==
  /\ pc.at = "idle" /\ last.op = "EvictIf" /\ ret.cnt = 2 /\ length = 1
  /\ evicted[1].tied /\ evicted[1].usage = 0 /\ evicted[2].usage = 0

\* An EvictIf that emptied a frequency node above the head, which left the list.
C15_WitnessEmptied ==
  /\ pc.at = "idle" /\ last.op = "EvictIf" /\ ret.cnt = 1 /\ length = 1
  /\ evicted[1].usage = 1 /\ numFrequencyNodes(Cache) = 1

\* C16: New(0) fails with the zero-size error and leaves no cache, so that no
\* operation is ever called on one; New(c) with c >= 1 does not fail and gives
\* a cache with Len() = 0, Cap() = c, every counter 0, no channel and a
\* frequency list of one empty frequency node of usage 0.
C16_NewRejectsZero ==
  /\ panic = errZeroSizeCache => nops = 0 /\ last.cap = 0 /\ frequencyList = NilF
  /\ nops = 0 =>
       IF last.cap = 0
       THEN panic = errZeroSizeCache /\ \A f \in FnIds : fnodes[f] = FreeFn
       ELSE /\ panic = "" /\ pc.at = "idle"
            /\ length = 0 /\ capacity = last.cap
            /\ stats = ZeroStats /\ StatisticsOf(Cache).stats.LenFreq0 = 0
            /\ Present(Cache) = {} /\ evictedChans = <<>>
            /\ numFrequencyNodes(Cache) = 1
            /\ fnodes[frequencyList] = [FreeFn EXCEPT !.usage = 0]

C16_Witness == nops = 0 /\ last.op = "New" /\ last.cap = 0 /\ panic = errZeroSizeCache

\* A cache of the largest capacity, just made.
C16_WitnessCreated == nops = 0 /\ last.op = "New" /\ capacity = MaxCap /\ panic = ""

\* C17: the program never ends in the panic of lfu() on an empty cache.
C17_NeverEmptyLFU == panic # errEmptyLFU

\* Every call made has returned.
Quiescent == pc.at = "idle" /\ \A g \in Goroutines : gs[g].at = "idle"

\* C18: calls made by goroutines that do not wait for one another leave the
\* cache as some sequence of the same calls one after the other would: once
\* they have all returned, Len() <= Cap() and Len() is the number of keys in the
\* index.
C18_ConcurrentCallsSafe ==
  Quiescent /\ panic = "" =>
    /\ length <= capacity
    /\ length = Cardinality(Present(Cache))

\* The registrations of channels other than e, in order.
Others(chans, e) == SelectSeq(chans, LAMBDA x : x # e)

\* The number of registrations of e.
Registrations(chans, e) == Cardinality({j \in 1 .. Len(chans) : chans[j] = e})

\* What every step keeps of the channels: a value is only ever received on a
\* registered channel, and an eviction only ever waits for one; and what an
\* UnregisterEvictions(e) keeps: the registrations of the other channels, in
\* their order, and all but the channels of the cache; with e not registered
\* it changes nothing.
C19_Frame ==
  /\ (pc'.at = "evict" /\ panic' = "") => pc'.i \in 1 .. Len(evictedChans')
  /\ (nops' = nops /\ delivered' # delivered) =>
        /\ Len(delivered') = Len(delivered) + 1
        /\ \E j \in 1 .. Len(evictedChans) : evictedChans[j] = delivered'[Len(delivered')][1]
  /\ CallOf("UnregisterEvictions") =>
        /\ pc'.at = "idle" /\ panic' = "" /\ delivered' = <<>> /\ evicted' = <<>>
        /\ Others(evictedChans', last'.chan) = Others(evictedChans, last'.chan)
        /\ Cache' = [Cache EXCEPT !.evictedChans = evictedChans']
        /\ Registrations(evictedChans, last'.chan) = 0 => Cache' = Cache

Calling == pc.at # "idle" /\ last.op \in {"Insert", "Resize", "EvictIf"}

\* C20: with readers that receive every value sent to them, every call of
\* Insert, Resize and EvictIf returns in the end.
C20_CallsReturn == Calling ~> (pc.at = "idle")

\* The calls that do not fail return in the end.
C20_CallsReturnOrFail == (Calling /\ panic = "") ~> (pc.at = "idle" \/ panic # "")

Counters == {"Inserts", "Hits", "Misses", "Evictions", "Deletes"}

\* C21: no step of an operation lowers one of the five counters Inserts,
\* Hits, Misses, Evictions and Deletes, so that each is at the return at least
\* what it was at the call.
C21_CountersNeverDecrease ==
  [][ /\ \A x \in Counters : stats'[x] >= stats[x]
      /\ pc'.at = "idle" => \A x \in Counters : stats'[x] >= Pre.stats[x] ]_vars

C21_Witness ==
  /\ pc.at = "idle" /\ panic = ""
  /\ stats.Inserts >= 2 /\ stats.Evictions >= 1 /\ stats.Hits >= 1 /\ stats.Deletes >= 1

\* The usage counts above zero that the history gives some key.
UsedTiers == {u \in TierIds \ {0} : tiers[u] # <<>>}

\* C22: whenever a call can be made, Statistics() would report as LenFreq0
\* the number of keys inserted and not accessed since, and as FreqListLen one
\* more than the number of distinct usage counts above zero among the keys
\* (both taken from the history of the calls); and what the last call of
\* Statistics returned is that.
C22_StatisticsCounts ==
  (pc.at = "idle" /\ panic = "") =>
    /\ StatisticsOf(Cache).stats.LenFreq0 = Len(tiers[0])
    /\ StatisticsOf(Cache).stats.FreqListLen = 1 + Cardinality(UsedTiers)
    /\ last.op = "Statistics" =>
          /\ ret.stats = stats
          /\ ret.stats.LenFreq0 = Len(tiers[0])
          /\ ret.stats.FreqListLen = 1 + Cardinality(UsedTiers)

C22_Witness ==
  /\ pc.at = "idle" /\ last.op = "Statistics"
  /\ ret.stats.LenFreq0 = 1 /\ ret.stats.FreqListLen = 2 /\ length = 2

\* The usage counts of the items in the cache.
UsageCounts(c) == {UsageOf(c, k) : k \in Present(c)}

C24_UsageCountsAccesses ==
  /\ \A k \in Keys :
        IF index[k] # NilN THEN UsageOf(Cache, k) = TierOf(tiers, k)
        ELSE TierOf(tiers, k) = -1
  /\ (pc.at = "idle" /\ panic = "" /\ last.op = "Insert") =>
        index[last.key] # NilN /\ UsageOf(Cache, last.key) = 0

C24_Witness ==
  /\ pc.at = "idle" /\ panic = "" /\ last.op = "Insert"
  /\ Len(evicted) = 1 /\ evicted[1].key = last.key /\ evicted[1].usage = 1

\* C25: no step lowers the usage count of a key that is in the cache before
\* and after it, unless the step belongs to an Insert of that key which has
\* evicted the item the key had; the usage is then 0. So it is at the return
\* of every operation, against the cache as it was at the call.
C25_UsageNeverDecreases ==
  [][ \A k \in Keys :
        /\ (index[k] # NilN /\ index'[k] # NilN /\ UsageOf(Cache', k) < UsageOf(Cache, k)) =>
              /\ last'.op = "Insert" /\ last'.key = k
              /\ \E j \in 1 .. Len(evicted') : evicted'[j].key = k
              /\ UsageOf(Cache', k) = 0
        /\ (pc'.at = "idle" /\ Pre.index[k] # NilN /\ index'[k] # NilN
              /\ UsageOf(Cache', k) < UsageOf(Pre, k)) =>
              /\ last'.op = "Insert" /\ last'.key = k
              /\ \E j \in 1 .. Len(evicted') : evicted'[j].key = k
              /\ UsageOf(Cache', k) = 0 ]_vars

C25_Witness ==
  /\ pc.at = "idle" /\ panic = "" /\ last.op = "Insert"
  /\ Len(evicted) = 1 /\ evicted[1].why = "capacity"
  /\ \E k \in Present(Cache) : UsageOf(Cache, k) = 1

\* C26: wherever there is a cache, its frequency list begins with the
\* frequency node of usage 0, the one New made, also when that has no item,
\* and the usage counts grow strictly along the list.
C26_HeadIsZeroAndUsageGrows ==
  panic # errZeroSizeCache =>
    LET fl == fnList(Cache, frequencyList)
    IN /\ frequencyList # NilF /\ fl[1] = frequencyList
       /\ fnodes[frequencyList].usage = 0 /\ fnodes[frequencyList].prev = NilF
       /\ \A i \in 1 .. (Len(fl) - 1) : fnodes[fl[i]].usage < fnodes[fl[i + 1]].usage
       /\ \A i, j \in 1 .. Len(fl) : fnodes[fl[i]].usage = fnodes[fl[j]].usage => i = j

\* C26, that the head frequency node is never another one: no step changes
\* Cache.frequencyList.
C26_HeadStays == [][frequencyList' = frequencyList]_vars

C26_Witness ==
  /\ pc.at = "idle" /\ panic = "" /\ length = 1 /\ stats.Hits = 2
  /\ fnodes[frequencyList].head = NilN
  /\ numFrequencyNodes(Cache) = 2 /\ UsageCounts(Cache) = {2}

\* C27: after every completed operation every frequency node of the list but
\* the head one has an item, and a step that takes the last item out of a
\* frequency node other than the head takes that frequency node out of the list.
C27_NoEmptyFrequencyNode ==
  (pc.at = "idle" /\ panic = "") =>
    LET fl == fnList(Cache, frequencyList)
    IN /\ \A i \in 2 .. Len(fl) : fnodes[fl[i]].head # NilN /\ fnodes[fl[i]].tail # NilN
       /\ Len(fl) = 1 + Cardinality(UsageCounts(Cache) \ {0})
       /\ \A f \in FnIds : fnodes[f] # FreeFn => \E i \in 1 .. Len(fl) : fl[i] = f

C27_Witness ==
  /\ pc.at = "idle" /\ panic = "" /\ last.op = "Delete" /\ ret.ok
  /\ stats.Hits = 1 /\ length = 0 /\ numFrequencyNodes(Cache) = 1

\* The nodes in the list of the i-th frequency node of the list.
ItemsAt(i) == nodeList(Cache, fnodes[fnList(Cache, frequencyList)[i]].head)

\* C28: after every completed operation the index has Len() keys, the lists
\* of the frequency nodes have Len() nodes in all, every key of the index
\* has its node in exactly one of these lists, once, and every node of a
\* list is the node the index has for its key.
C28_IndexAndListsAgree ==
  (pc.at = "idle" /\ panic = "") =>
    LET fl == fnList(Cache, frequencyList)
    IN /\ Cardinality(Present(Cache)) = length
       /\ countItems(Cache, fl) = length
       /\ \A k \in Present(Cache) :
             Cardinality({<<i, j>> \in (1 .. Len(fl)) \X (1 .. length) :
                            j <= Len(ItemsAt(i)) /\ ItemsAt(i)[j] = index[k]}) = 1
       /\ \A i \in 1 .. Len(fl) : \A j \in 1 .. Len(ItemsAt(i)) :
             index[nodes[ItemsAt(i)[j]].key] = ItemsAt(i)[j]

C28_Witness ==
  /\ pc.at = "idle" /\ panic = "" /\ last.op = "Access" /\ ret.ok
  /\ length = 3 /\ numFrequencyNodes(Cache) = 2

\* C29: after every completed operation the parent of each node is the
\* frequency node whose list has it, its prev is the node before it in that
\* list (nil for the first) and the next of that one is it, the tail of each
\* frequency node is the last node of its list (nil with no node), the prev
\* of each frequency node is the one before it in the frequency list; and
\* check() finds no bug.
C29_WellLinked ==
  (pc.at = "idle" /\ panic = "") =>
    LET fl == fnList(Cache, frequencyList)
    IN /\ \A i \in 1 .. Len(fl) :
             /\ fnodes[fl[i]].prev = (IF i = 1 THEN NilF ELSE fl[i - 1])
             /\ fnodes[fl[i]].tail =
                   (IF ItemsAt(i) = <<>> THEN NilN ELSE ItemsAt(i)[Len(ItemsAt(i))])
             /\ \A j \in 1 .. Len(ItemsAt(i)) :
                   /\ nodes[ItemsAt(i)[j]].parent = fl[i]
                   /\ nodes[ItemsAt(i)[j]].prev = (IF j = 1 THEN NilN ELSE ItemsAt(i)[j - 1])
       /\ check(Cache) = {}

C29_Witness ==
  /\ pc.at = "idle" /\ panic = "" /\ length = 2 /\ UsageCounts(Cache) = {0, 2}
  /\ numFrequencyNodes(Cache) = 2

\* C30: while evict() is sending the value of an item, the item is still in
\* the index and in the list of its frequency node, it is counted in Len()
\* and not yet in Evictions; and when the item has gone, every registered
\* channel has received its value, after the values of the items evicted
\* before it.
C30_NotifiedBeforeRemoved ==
  /\ (pc.at = "evict" /\ panic = "") =>
        LET k == nodes[pc.n].key
        IN /\ index[k] = pc.n
           /\ \E j \in 1 .. Len(nodeList(Cache, fnodes[nodes[pc.n].parent].head)) :
                 nodeList(Cache, fnodes[nodes[pc.n].parent].head)[j] = pc.n
           /\ length = Cardinality(Present(Cache))
           /\ length = pc.pre.length - Len(evicted)
           /\ stats.Evictions = pc.pre.stats.Evictions + Len(evicted)
           /\ \A j \in 1 .. Len(evicted) : evicted[j].key # k
           /\ Len(delivered) = Len(evicted) * Len(evictedChans) + (pc.i - 1)
  /\ \A j \in 1 .. Len(evicted) : \A h \in 1 .. Len(evictedChans) :
        /\ (j - 1) * Len(evictedChans) + h <= Len(delivered)
        /\ delivered[(j - 1) * Len(evictedChans) + h] = <<evictedChans[h], evicted[j].value>>

C30_Witness ==
  /\ pc.at = "evict" /\ panic = "" /\ pc.i = 2 /\ Len(evictedChans) = 2
  /\ Len(delivered) = 1 /\ delivered[1][2] = nodes[pc.n].value /\ index[nodes[pc.n].key] = pc.n

\* C31: while evict() is sending on a channel, the only step there is is the
\* receipt of the value on that channel: no call is made, and as long as a
\* channel has not received, the item stays in the cache and Evictions as it
\* was. An item goes only in the step in which the last registered channel
\* receives its value (or in a call with no channel registered).
C31_BlockedUntilReceived ==
  [][ /\ (pc.at = "evict" /\ panic = "") =>
            /\ nops' = nops /\ last' = last
            /\ delivered' = Append(delivered, <<evictedChans[pc.i], nodes[pc.n].value>>)
            /\ pc.i < Len(evictedChans) =>
                  /\ pc' = [pc EXCEPT !.i = @ + 1]
                  /\ Cache' = Cache /\ evicted' = evicted
      /\ (evictedChans' # <<>> /\ evicted' # <<>>
            /\ (nops' # nops \/ Len(evicted') > Len(evicted))) =>
            /\ pc.at = "evict" /\ pc.i = Len(evictedChans) /\ nops' = nops
            /\ Len(evicted') = Len(evicted) + 1
            /\ evicted'[Len(evicted')].key = nodes[pc.n].key ]_vars

C31_Witness ==
  /\ pc.at = "evict" /\ panic = "" /\ pc.i = 1 /\ Len(evictedChans) = 1
  /\ delivered = <<>> /\ evicted = <<>> /\ last.op = "Resize"

\* The calls that evict nothing: Access, Delete, Statistics, Evictions,
\* UnregisterEvictions, Insert of an absent key below capacity, Resize to at
\* least Len(), EvictIf with no value the test accepts.
EvictsNothing(l) ==
  \/ l.op \in {"Access", "Delete", "Statistics", "Evictions", "UnregisterEvictions"}
  \/ l.op = "Insert" /\ index[l.key] = NilN /\ length < capacity
  \/ l.op = "Resize" /\ l.cap >= length
  \/ l.op = "EvictIf" /\ Matching(Cache, l.test) = {}

\* C32: a call that evicts nothing returns in the step of the call, with
\* nothing sent and no receipt waited for, whatever channels are registered.
C32_NonEvictingCallsReturn ==
  [][ (nops' = nops + 1 /\ EvictsNothing(last')) =>
        /\ pc'.at = "idle" /\ panic' = ""
        /\ delivered' = <<>> /\ evicted' = <<>>
        /\ stats'.Evictions = stats.Evictions ]_vars

C32_Witness ==
  /\ pc.at = "idle" /\ panic = "" /\ Len(evictedChans) = 2 /\ last.op = "Insert"
  /\ length = 2 /\ evicted = <<>> /\ stats.Evictions = 0

\* C33: every Insert call runs to the count of its insert, and when it
\* returns Inserts is one more than at the call, whether the key was absent,
\* present or the call evicted; every Access call raises exactly one of Hits
\* and Misses by one and no other step changes either, so that Hits + Misses is
\* the number of Access calls made.
C33_InsertsAndAccessesCounted ==
  [][ /\ CallOf("Insert") => panic' = ""
      /\ Returns("Insert") => stats'.Inserts = Pre.stats.Inserts + 1
      /\ CallOf("Access") =>
            \/ stats'.Hits = stats.Hits + 1 /\ stats'.Misses = stats.Misses
            \/ stats'.Hits = stats.Hits /\ stats'.Misses = stats.Misses + 1
      /\ ~CallOf("Access") => stats'.Hits = stats.Hits /\ stats'.Misses = stats.Misses ]_vars

\* Key b comes after key a in the list of one frequency node.
Follows(c, a, b) ==
  LET rest == nodeList(c, c.node[c.index[a]].next)
  IN \E j \in 1 .. Len(rest) : rest[j] = b

\* The keys S are present in post as they were in pre: same usage counts, and
\* the same order among those that share a frequency node.
Undisturbed(pre, post, S) ==
  \A a \in S :
     /\ a \in Present(pre) /\ a \in Present(post)
     /\ UsageOf(post, a) = UsageOf(pre, a)
     /\ ValueOf(post, a) = ValueOf(pre, a)
     /\ \A b \in S : Follows(post, a, b) <=> Follows(pre, a, b)

\* C34: an Insert(k, v) of a present key evicts k's old item and nothing
\* else, also when Len() = Cap() at the call: Evictions is one more, and every
\* other key is still present with its usage count and its place among the
\* others of its tier.
C34_ReinsertEvictsOnlyOld ==
  [][ (Returns("Insert") /\ Pre.index[last'.key] # NilN) =>
        /\ Len(evicted') = 1 /\ evicted'[1].key = last'.key
        /\ stats'.Evictions = Pre.stats.Evictions + 1
        /\ Present(Cache') = Present(Pre)
        /\ Undisturbed(Pre, Cache', Present(Pre) \ {last'.key}) ]_vars

C34_Witness ==
  /\ pc.at = "idle" /\ panic = "" /\ last.op = "Insert"
  /\ Len(evicted) = 1 /\ evicted[1].why = "reinsert" /\ evicted[1].usage = 0
  /\ length = capacity /\ length = 2
  /\ \E o \in Present(Cache) \ {last.key} : UsageOf(Cache, o) = 0 /\ Follows(Cache, o, last.key)

\* C35: in every reachable state Len() is Inserts - Evictions - Deletes, the
\* counters being those Statistics() reports.
C35_LenIsInsertsLessRemovals ==
  /\ length = stats.Inserts - stats.Evictions - stats.Deletes
  /\ (pc.at = "idle" /\ last.op = "Statistics") =>
        length = ret.stats.Inserts - ret.stats.Evictions - ret.stats.Deletes

C35_Witness ==
  /\ pc.at = "idle" /\ panic = "" /\ length = 1
  /\ stats.Inserts = 3 /\ stats.Evictions = 1 /\ stats.Deletes = 1

\* The keys of the reference map.
Referenced == {k \in Keys : reference[k] # NilV}

\* C36: between calls the cache's keys and values are a sub-map of the
\* reference map (while an Insert(k, v) is blocked in an eviction, k may still
\* hold the value it is about to lose); an Access(k) that returns (v, true)
\* returns the value of the latest Insert of k, and never hits a key whose
\* latest Insert was followed by a Delete.
C36_SubMapOfReference ==
  /\ \A k \in Present(Cache) :
        \/ pc.at # "idle" /\ last.op = "Insert" /\ last.key = k
        \/ k \in Referenced /\ ValueOf(Cache, k) = reference[k]
  /\ (pc.at = "idle" /\ last.op = "Access" /\ ret.ok) =>
        last.key \in Referenced /\ ret.value = reference[last.key]

C36_Witness ==
  /\ pc.at = "idle" /\ panic = "" /\ last.op = "Access" /\ ret.ok /\ ret.value = 2
  /\ stats.Inserts = 3 /\ length = 1
  /\ Referenced # Present(Cache)

\* The keys in the order the lists hold them: frequency node after frequency
\* node from the head, and within each from its head.
RECURSIVE EvictionOrderFrom(_, _)
EvictionOrderFrom(c, fl) ==
  IF fl = <<>> THEN <<>>
  ELSE nodeList(c, c.fn[Head(fl)].head) \o EvictionOrderFrom(c, Tail(fl))

EvictionOrder(c) == EvictionOrderFrom(c, fnList(c, c.frequencyList))

\* The keys that a step neither names nor removes.
Bystanders == (Present(Cache) \cap Present(Cache')) \ {last'.key}

\* C37: a step that deletes, evicts or promotes an item (as any other step)
\* leaves every other item with its usage count and the other items of a tier
\* in their order: the order in which the lists hold the remaining items, which
\* is the order of their eviction, is the same before and after.
C37_OthersUndisturbed ==
  [][ /\ Undisturbed(Cache, Cache', Bystanders)
      /\ SelectSeq(EvictionOrder(Cache'), LAMBDA k : k \in Bystanders)
           = SelectSeq(EvictionOrder(Cache), LAMBDA k : k \in Bystanders) ]_vars

\* After a Delete that left two items of one tier behind.
C37_Witness ==
  /\ pc.at = "idle" /\ panic = "" /\ last.op = "Delete" /\ stats.Deletes = 1
  /\ length = 2 /\ stats.Inserts = 3
  /\ \E a, b \in Present(Cache) : Follows(Cache, a, b)

\* After an eviction that left two items of one tier behind.
C37_WitnessEvicted ==
  /\ pc.at = "idle" /\ panic = "" /\ Len(evicted) = 1 /\ length = 2
  /\ \E a, b \in Present(Cache) \ {last.key} : Follows(Cache, a, b)

\* After an Access that promoted one of three items of a tier.
C37_WitnessPromoted ==
  /\ pc.at = "idle" /\ panic = "" /\ last.op = "Access" /\ ret.ok /\ length = 3
  /\ \E a, b \in Present(Cache) \ {last.key} : Follows(Cache, a, b)

\* An operation run to its end, every send of its evictions being received.
RECURSIVE RunReceived(_)
RunReceived(m) ==
  LET r == Run(m)
  IN IF r.panic = "" /\ r.p.at = "evict"
     THEN RunReceived([r EXCEPT !.p.i = @ + 1])
     ELSE r

\* EvictIf(test) from cache c, ranging over the index in the order ord.
EvictIfFrom(c, ord, test) ==
  RunReceived(Machine(c, [Idle EXCEPT !.at = "EvictIf.loop", !.ord = ord,
                                      !.test = test, !.pre = c]))

EvictedKeys(m) == {m.evicted[j].key : j \in 1 .. Len(m.evicted)}

\* C38: from any state in which EvictIf can be called, and for any test, two
\* orders of ranging over the index (every order o1 against one fixed order
\* o2, hence any two) end in the same cache (keys, values, usage
\* counts, lists, counters), the same history of tiers and the same return
\* value, having evicted the same keys; only the order of the evictions, and so
\* of the values sent, depends on the order.
C38_EvictIfOrderIndependent ==
  (CanCall /\ frequencyList # NilF) =>
    \A test \in SUBSET Values :
       \A o1 \in Perms(Present(Cache)) :
          LET o2 == CHOOSE o \in Perms(Present(Cache)) : TRUE
              r1 == EvictIfFrom(Cache, o1, test)
              r2 == EvictIfFrom(Cache, o2, test)
          IN /\ r1.c = r2.c /\ r1.ret = r2.ret /\ r1.tiers = r2.tiers
             /\ r1.p = Idle /\ r2.p = Idle
             /\ EvictedKeys(r1) = EvictedKeys(r2)
             /\ r1.ret.cnt = Cardinality(Matching(Cache, test))

\* A state of three items from which two orders evict in different orders.
C38_Witness ==
  /\ CanCall /\ length = 3 /\ Len(evictedChans) = 1
  /\ \E o1, o2 \in Perms(Present(Cache)) :
        /\ EvictIfFrom(Cache, o1, Values).evicted # EvictIfFrom(Cache, o2, Values).evicted
        /\ Len(EvictIfFrom(Cache, o1, Values).evicted) = 3

\* The number of values channel e has received in the operation.
Received(e) == Cardinality({j \in 1 .. Len(delivered) : delivered[j][1] = e})

\* C39: every Evictions(e) call adds a registration of e, also when e is
\* registered already; an UnregisterEvictions(e) call removes one registration
\* of e, if there is one; and when an operation has returned, each channel has
\* received every evicted value as many times as it is registered: twice when
\* registered twice, once when one of the two registrations has been removed.
C39_OneSendPerRegistration ==
  [][ /\ CallOf("Evictions") =>
            Registrations(evictedChans', last'.chan)
              = Registrations(evictedChans, last'.chan) + 1
      /\ (CallOf("UnregisterEvictions") /\ Registrations(evictedChans, last'.chan) >= 1) =>
            Registrations(evictedChans', last'.chan)
              = Registrations(evictedChans, last'.chan) - 1
      /\ (pc'.at = "idle" /\ panic' = "") =>
            \A e \in Chans :
               /\ Received(e)' = Registrations(evictedChans', e) * Len(evicted')
               /\ \A j \in 1 .. Len(evicted') :
                     Cardinality({i \in 1 .. Len(delivered') :
                                    /\ delivered'[i] = <<e, evicted'[j].value>>
                                    /\ (i - 1) \div Len(evictedChans') = j - 1})
                       = Registrations(evictedChans', e) ]_vars

\* An eviction with one channel registered twice: two receipts of the value.
C39_Witness ==
  /\ pc.at = "idle" /\ panic = "" /\ Len(evicted) = 1
  /\ \E e \in Chans :
        /\ evictedChans = <<e, e>>
        /\ delivered = <<<<e, evicted[1].value>>, <<e, evicted[1].value>>>>

\* One of two registrations of a channel removed.
C39_WitnessUnregistered ==
  /\ pc.at = "idle" /\ panic = "" /\ last.op = "UnregisterEvictions" /\ ret.ok
  /\ evictedChans = <<last.chan>> /\ nops = 3 /\ length = 0

\* An eviction after that: one receipt of the value.
C39_WitnessOnceAfter ==
  /\ pc.at = "idle" /\ panic = "" /\ last.op = "Insert" /\ Len(evicted) = 1
  /\ nops = 6 /\ stats.Inserts = 3 /\ stats.Evictions = 2
  /\ \E e \in Chans :
        evictedChans = <<e>> /\ delivered = <<<<e, evicted[1].value>>>>

====
